---------------------------- MODULE Spec2Model ----------------------------
(***************************************************************************)
(* Model of goletan/core: the Core object (NewCore / Start / Shutdown),    *)
(* its service watcher goroutine (startServiceWatcher and the three event  *)
(* handlers), and the environment it runs in: the event producer behind    *)
(* Services.Watch, the canceller of the watch context, and the caller of   *)
(* Core.Start / Core.Shutdown.                                             *)
(*                                                                         *)
(* Every call into a collaborator (Services, ManagedService, Resilience)   *)
(* is one step whose error result is chosen nondeterministically.          *)
(***************************************************************************)
EXTENDS Naturals, Sequences, FiniteSets

(***************************************************************************)
(* Bounds of the model.                                                    *)
(***************************************************************************)
\* Number of events the producer puts on the watch stream.
MaxEvents == 2
\* Capacity of the event channel returned by Services.Watch.
MaxChan == 1
\* Number of OS signals (interrupt, termination) sent to the process.
MaxSignals == 2
\* Number of endpoints Services.Discover returns at most.
MaxEndpoints == 2

Names == {"a", "b"}
\* event.Type is a string: the three types the switch knows and any other.
EventTypes == {"ADDED", "DELETED", "MODIFIED", "OTHER"}
Ids == 1..MaxEvents
Ops == {"CreateService", "Register", "Initialize", "Start", "Stop"}

NoEvent == [type |-> "NONE", name |-> "-", seq |-> 0, late |-> FALSE]

VARIABLES
    wpc,         \* position of the startServiceWatcher goroutine
    cur,         \* the event the watcher switch is handling
    handlerLog,  \* handler invocations made by the switch, in order
    eventCh,     \* events buffered in the channel returned by Watch
    chClosed,    \* the producer closed the channel
    sent,        \* every event the producer put on the channel, in order
    cancelled,   \* ctx.Done() is closed
    svc,         \* per ADDED event: the service CreateService returned
    services,    \* the service map of Services: ids of registered services
    calls,       \* calls[id][op]: number of times op was called for id
    spc,         \* position of Core.Shutdown
    stopQueue,   \* services StopAll still has to stop
    atShutdown,  \* the service map when Shutdown began
    stopErr,     \* StopAll met a failing Stop
    resReleased, \* Resilience.Shutdown has been invoked
    exited,      \* the process ended (Logger.Fatal)
    logged,      \* messages written to Observability.Logger
    watchCalls,  \* number of calls of Services.Watch
    mpc,         \* position of main
    gpc,         \* position of the goroutine of setupSignalHandler
    signalChan,  \* signals buffered in signalChan (capacity 1)
    sigSent,     \* OS signals delivered to the process
    cancelCalls, \* invocations of shutdownCancel, by invoker
    initAll,     \* result of Services.InitializeAll in main
    startAll,    \* result of Services.StartAll in main
    endpoints    \* discovered endpoints main has still to log

watcherVars == <<wpc, cur, handlerLog>>
chanVars == <<eventCh, chClosed, sent>>
svcVars == <<svc, services, calls>>
shutVars == <<spc, stopQueue, atShutdown, stopErr, resReleased>>
mainVars == <<mpc, gpc, signalChan, sigSent, cancelCalls, initAll, startAll,
              endpoints>>
vars == <<wpc, cur, handlerLog, eventCh, chClosed, sent, cancelled, svc,
          services, calls, spc, stopQueue, atShutdown, stopErr, resReleased,
          exited, logged, watchCalls, mpc, gpc, signalChan, sigSent,
          cancelCalls, initAll, startAll, endpoints>>

Log(level, msg) == logged' = logged \cup {<<level, msg>>}

\* Names that have an entry in the service map.
ManagedNames == {svc[i].name : i \in services}

\* The watcher positions of the RUNNING state of the loop: the select and
\* the bodies of the handlers it calls synchronously.
HandlerPcs == {"added_create", "added_register", "added_initialize",
               "added_start", "deleted", "modified"}
RunningPcs == {"select"} \cup HandlerPcs
TerminalPcs == {"CANCELLED", "CLOSED", "OPEN_FAILED"}

Init ==
    /\ wpc = "init"
    /\ cur = NoEvent
    /\ handlerLog = <<>>
    /\ eventCh = <<>>
    /\ chClosed = FALSE
    /\ sent = <<>>
    /\ cancelled = FALSE
    /\ svc = [i \in Ids |-> [name |-> "-", st |-> "absent", ok |-> {}]]
    /\ services = {}
    /\ calls = [i \in Ids |-> [o \in Ops |-> 0]]
    /\ spc = "idle"
    /\ stopQueue = {}
    /\ atShutdown = {}
    /\ stopErr = FALSE
    /\ resReleased = FALSE
    /\ exited = FALSE
    /\ logged = {}
    /\ watchCalls = 0
    /\ mpc = "start"
    /\ gpc = "none"
    /\ signalChan = 0
    /\ sigSent = 0
    /\ cancelCalls = [signal |-> 0, deferred |-> 0]
    /\ initAll = "none"
    /\ startAll = "none"
    /\ endpoints = 0

(***************************************************************************)
(* Core.Start: launches the watcher goroutine and returns.                 *)
(***************************************************************************)
CoreStart ==
    /\ ~exited
    /\ wpc = "init"
    /\ wpc' = "opening"
    /\ Log("info", "Starting service discovery and event handling...")
    /\ UNCHANGED <<cur, handlerLog, chanVars, cancelled, svcVars, shutVars,
                   exited>>
    /\ UNCHANGED <<watchCalls, mainVars>>

(***************************************************************************)
(* Environment: the canceller of ctx and the producer behind Watch.        *)
(***************************************************************************)
Cancel ==
    /\ ~exited
    /\ wpc # "init"
    /\ ~cancelled
    /\ cancelled' = TRUE
    /\ UNCHANGED <<watcherVars, chanVars, svcVars, shutVars, exited, logged>>
    /\ UNCHANGED <<watchCalls, mainVars>>

Send(t, n) ==
    /\ ~exited
    /\ wpc \notin {"init", "opening", "OPEN_FAILED"}
    /\ ~chClosed
    /\ Len(sent) < MaxEvents
    /\ Len(eventCh) < MaxChan
    /\ LET ev == [type |-> t, name |-> n, seq |-> Len(sent) + 1,
                  late |-> cancelled]
       IN  /\ eventCh' = Append(eventCh, ev)
           /\ sent' = Append(sent, ev)
    /\ UNCHANGED <<watcherVars, chClosed, cancelled, svcVars, shutVars,
                   exited, logged>>
    /\ UNCHANGED <<watchCalls, mainVars>>

CloseChannel ==
    /\ ~exited
    /\ wpc \notin {"init", "opening", "OPEN_FAILED"}
    /\ ~chClosed
    /\ chClosed' = TRUE
    /\ UNCHANGED <<watcherVars, eventCh, sent, cancelled, svcVars, shutVars,
                   exited, logged>>
    /\ UNCHANGED <<watchCalls, mainVars>>

(***************************************************************************)
(* startServiceWatcher                                                     *)
(***************************************************************************)
\* c.Services.Watch(ctx, ns); on error Logger.Fatal, which ends the process.
WatchOpen(ok) ==
    /\ ~exited
    /\ wpc = "opening"
    /\ IF ok
       THEN /\ wpc' = "select"
            /\ UNCHANGED <<exited, logged>>
       ELSE /\ wpc' = "OPEN_FAILED"
            /\ exited' = TRUE
            /\ Log("fatal", "Failed to start service watcher")
    /\ UNCHANGED <<cur, handlerLog, chanVars, cancelled, svcVars, shutVars>>
    /\ watchCalls' = watchCalls + 1
    /\ UNCHANGED mainVars

\* case <-ctx.Done()
SelectDone ==
    /\ ~exited
    /\ wpc = "select"
    /\ cancelled
    /\ wpc' = "CANCELLED"
    /\ Log("info", "Stopping service watcher...")
    /\ UNCHANGED <<cur, handlerLog, chanVars, cancelled, svcVars, shutVars,
                   exited>>
    /\ UNCHANGED <<watchCalls, mainVars>>

\* The closed channel is logged, but the loop is not left (a break that
\* leaves only the select).
SelectClosedBreak ==
    /\ ~exited
    /\ wpc = "select"
    /\ chClosed
    /\ eventCh = <<>>
    /\ wpc' = "select"
    /\ Log("warn", "Service watcher channel closed")
    /\ UNCHANGED <<cur, handlerLog, chanVars, cancelled, svcVars, shutVars,
                   exited>>
    /\ UNCHANGED <<watchCalls, mainVars>>

\* The loop answers the closed channel by opening the stream again.
SelectClosedReopen ==
    /\ ~exited
    /\ wpc = "select"
    /\ chClosed
    /\ eventCh = <<>>
    /\ wpc' = "opening"
    /\ Log("warn", "Service watcher channel closed")
    /\ UNCHANGED <<cur, handlerLog, chanVars, cancelled, svcVars, shutVars,
                   exited>>
    /\ UNCHANGED <<watchCalls, mainVars>>

\* case event, ok := <-eventCh with ok = false: the channel is closed and
\* drained.
SelectClosed ==
    /\ ~exited
    /\ wpc = "select"
    /\ chClosed
    /\ eventCh = <<>>
    /\ wpc' = "CLOSED"
    /\ Log("warn", "Service watcher channel closed")
    /\ UNCHANGED <<cur, handlerLog, chanVars, cancelled, svcVars, shutVars,
                   exited>>
    /\ UNCHANGED <<watchCalls, mainVars>>

\* switch event.Type: the handler each case calls ("none": no case matches).
HandlerForNoModified(t) ==
    CASE t = "ADDED" -> "handleServiceAdded"
      [] t = "DELETED" -> "handleServiceDeleted"
      [] OTHER -> "none"

HandlerFor(t) ==
    CASE t = "ADDED" -> "handleServiceAdded"
      [] t = "DELETED" -> "handleServiceDeleted"
      [] t = "MODIFIED" -> "handleServiceModified"
      [] OTHER -> "none"

HandlerEntry(h) ==
    CASE h = "handleServiceAdded" -> "added_create"
      [] h = "handleServiceDeleted" -> "deleted"
      [] h = "handleServiceModified" -> "modified"
      [] OTHER -> "select"

\* case event, ok := <-eventCh with ok = true, then the switch.
SelectEvent ==
    /\ ~exited
    /\ wpc = "select"
    /\ eventCh # <<>>
    /\ LET ev == Head(eventCh)
           h == HandlerFor(ev.type)
       IN  /\ eventCh' = Tail(eventCh)
           /\ cur' = ev
           /\ wpc' = HandlerEntry(h)
           /\ handlerLog' = IF h = "none" THEN handlerLog
                            ELSE Append(handlerLog, [handler |-> h, ev |-> ev])
    /\ UNCHANGED <<chClosed, sent, cancelled, svcVars, shutVars, exited,
                   logged>>
    /\ UNCHANGED <<watchCalls, mainVars>>

(***************************************************************************)
(* handleServiceAdded: CreateService, Register, Initialize, Start; the     *)
(* first failing step is logged and ends the handler.                      *)
(***************************************************************************)
Called(id, op) == [calls EXCEPT ![id][op] = @ + 1]

\* The process dies instead of logging the CreateService error.
AddedCreateFatal(ok) ==
    /\ ~exited
    /\ wpc = "added_create"
    /\ calls' = Called(cur.seq, "CreateService")
    /\ IF ok
       THEN /\ svc' = [svc EXCEPT ![cur.seq] =
                          [name |-> cur.name, st |-> "created",
                           ok |-> {"CreateService"}]]
            /\ wpc' = "added_register"
            /\ Log("info", "Adding service")
            /\ UNCHANGED exited
       ELSE /\ wpc' = wpc
            /\ exited' = TRUE
            /\ Log("fatal", "Failed to create service")
            /\ UNCHANGED svc
    /\ UNCHANGED <<cur, handlerLog, chanVars, cancelled, services, shutVars>>
    /\ UNCHANGED <<watchCalls, mainVars>>

\* An ADDED event for a name that is already managed is dropped.
AddedCreateDedup(ok) ==
    /\ ~exited
    /\ wpc = "added_create"
    /\ IF cur.name \in ManagedNames
       THEN /\ wpc' = "select"
            /\ Log("info", "Adding service")
            /\ UNCHANGED <<svc, calls>>
       ELSE /\ calls' = Called(cur.seq, "CreateService")
            /\ IF ok
               THEN /\ svc' = [svc EXCEPT ![cur.seq] =
                                  [name |-> cur.name, st |-> "created",
                                   ok |-> {"CreateService"}]]
                    /\ wpc' = "added_register"
                    /\ Log("info", "Adding service")
               ELSE /\ wpc' = "select"
                    /\ logged' = logged
                         \cup {<<"info", "Adding service">>,
                               <<"error", "Failed to create service">>}
                    /\ UNCHANGED svc
    /\ UNCHANGED <<cur, handlerLog, chanVars, cancelled, services, shutVars,
                   exited>>
    /\ UNCHANGED <<watchCalls, mainVars>>

AddedCreate(ok) ==
    /\ ~exited
    /\ wpc = "added_create"
    /\ calls' = Called(cur.seq, "CreateService")
    /\ IF ok
       THEN /\ svc' = [svc EXCEPT ![cur.seq] =
                          [name |-> cur.name, st |-> "created",
                           ok |-> {"CreateService"}]]
            /\ wpc' = "added_register"
            /\ Log("info", "Adding service")
       ELSE /\ wpc' = "select"
            /\ logged' = logged \cup {<<"info", "Adding service">>,
                                      <<"error", "Failed to create service">>}
            /\ UNCHANGED svc
    /\ UNCHANGED <<cur, handlerLog, chanVars, cancelled, services, shutVars,
                   exited>>
    /\ UNCHANGED <<watchCalls, mainVars>>

\* Services.Register keeps one service per name: a successful Register
\* puts the service in the map under its name, a failed one changes nothing.
Registered(id) ==
    {i \in services : svc[i].name # svc[id].name} \cup {id}

\* The error of Register is logged and the handler goes on.
AddedRegisterNoReturn(ok) ==
    /\ ~exited
    /\ wpc = "added_register"
    /\ calls' = Called(cur.seq, "Register")
    /\ wpc' = "added_initialize"
    /\ IF ok
       THEN /\ services' = Registered(cur.seq)
            /\ svc' = [svc EXCEPT ![cur.seq].st = "registered",
                               ![cur.seq].ok = @ \cup {"Register"}]
            /\ UNCHANGED logged
       ELSE /\ Log("error", "Failed to register service")
            /\ UNCHANGED <<svc, services>>
    /\ UNCHANGED <<cur, handlerLog, chanVars, cancelled, shutVars, exited>>
    /\ UNCHANGED <<watchCalls, mainVars>>

AddedRegister(ok) ==
    /\ ~exited
    /\ wpc = "added_register"
    /\ calls' = Called(cur.seq, "Register")
    /\ IF ok
       THEN /\ services' = Registered(cur.seq)
            /\ svc' = [svc EXCEPT ![cur.seq].st = "registered",
                               ![cur.seq].ok = @ \cup {"Register"}]
            /\ wpc' = "added_initialize"
            /\ UNCHANGED logged
       ELSE /\ wpc' = "select"
            /\ Log("error", "Failed to register service")
            /\ UNCHANGED <<svc, services>>
    /\ UNCHANGED <<cur, handlerLog, chanVars, cancelled, shutVars, exited>>
    /\ UNCHANGED <<watchCalls, mainVars>>

\* The error of Initialize is logged and the handler goes on to Start.
AddedInitializeNoReturn(ok) ==
    /\ ~exited
    /\ wpc = "added_initialize"
    /\ calls' = Called(cur.seq, "Initialize")
    /\ wpc' = "added_start"
    /\ IF ok
       THEN /\ svc' = [svc EXCEPT ![cur.seq].st = "initialized",
                                  ![cur.seq].ok = @ \cup {"Initialize"}]
            /\ UNCHANGED logged
       ELSE /\ Log("error", "Failed to initialize service")
            /\ UNCHANGED svc
    /\ UNCHANGED <<cur, handlerLog, chanVars, cancelled, services, shutVars,
                   exited>>
    /\ UNCHANGED <<watchCalls, mainVars>>

AddedInitialize(ok) ==
    /\ ~exited
    /\ wpc = "added_initialize"
    /\ calls' = Called(cur.seq, "Initialize")
    /\ IF ok
       THEN /\ svc' = [svc EXCEPT ![cur.seq].st = "initialized",
                               ![cur.seq].ok = @ \cup {"Initialize"}]
            /\ wpc' = "added_start"
            /\ UNCHANGED logged
       ELSE /\ wpc' = "select"
            /\ Log("error", "Failed to initialize service")
            /\ UNCHANGED svc
    /\ UNCHANGED <<cur, handlerLog, chanVars, cancelled, services, shutVars,
                   exited>>
    /\ UNCHANGED <<watchCalls, mainVars>>

\* A failed Start is rolled back: the service is taken out of the map.
AddedStartRollback(ok) ==
    /\ ~exited
    /\ wpc = "added_start"
    /\ calls' = Called(cur.seq, "Start")
    /\ wpc' = "select"
    /\ IF ok
       THEN /\ svc' = [svc EXCEPT ![cur.seq].st = "running",
                                  ![cur.seq].ok = @ \cup {"Start"}]
            /\ UNCHANGED <<logged, services>>
       ELSE /\ Log("error", "Failed to start service")
            /\ services' = services \ {cur.seq}
            /\ UNCHANGED svc
    /\ UNCHANGED <<cur, handlerLog, chanVars, cancelled, shutVars, exited>>
    /\ UNCHANGED <<watchCalls, mainVars>>

AddedStart(ok) ==
    /\ ~exited
    /\ wpc = "added_start"
    /\ calls' = Called(cur.seq, "Start")
    /\ wpc' = "select"
    /\ IF ok
       THEN /\ svc' = [svc EXCEPT ![cur.seq].st = "running",
                               ![cur.seq].ok = @ \cup {"Start"}]
            /\ UNCHANGED logged
       ELSE /\ Log("error", "Failed to start service")
            /\ UNCHANGED svc
    /\ UNCHANGED <<cur, handlerLog, chanVars, cancelled, services, shutVars,
                   exited>>
    /\ UNCHANGED <<watchCalls, mainVars>>

(***************************************************************************)
(* handleServiceDeleted and handleServiceModified: a log line, nothing     *)
(* else.                                                                   *)
(***************************************************************************)
\* Looks the name up and calls Stop on the result without testing that the
\* name was found: a nil dereference when it was not.
HandleDeletedUnchecked ==
    /\ ~exited
    /\ wpc = "deleted"
    /\ Log("info", "Removing service")
    /\ IF cur.name \in ManagedNames
       THEN LET id == CHOOSE i \in services : svc[i].name = cur.name
            IN  /\ calls' = Called(id, "Stop")
                /\ svc' = [svc EXCEPT ![id].st = "stopped"]
                /\ services' = services \ {id}
                /\ wpc' = "select"
                /\ UNCHANGED exited
       ELSE /\ exited' = TRUE
            /\ wpc' = "deleted"
            /\ UNCHANGED svcVars
    /\ UNCHANGED <<cur, handlerLog, chanVars, cancelled, shutVars>>
    /\ UNCHANGED <<watchCalls, mainVars>>

HandleDeleted ==
    /\ ~exited
    /\ wpc = "deleted"
    /\ wpc' = "select"
    /\ Log("info", "Removing service")
    /\ UNCHANGED <<cur, handlerLog, chanVars, cancelled, svcVars, shutVars,
                   exited>>
    /\ UNCHANGED <<watchCalls, mainVars>>

HandleModified ==
    /\ ~exited
    /\ wpc = "modified"
    /\ wpc' = "select"
    /\ Log("info", "Modifying service")
    /\ UNCHANGED <<cur, handlerLog, chanVars, cancelled, svcVars, shutVars,
                   exited>>
    /\ UNCHANGED <<watchCalls, mainVars>>

(***************************************************************************)
(* Core.Shutdown: Services.StopAll, then Resilience.Shutdown.              *)
(***************************************************************************)
\* Entry of Shutdown and of the StopAll call it makes.
ShutdownBegin ==
    /\ ~exited
    /\ wpc # "init"
    /\ spc = "idle"
    /\ spc' = "stopall"
    /\ stopQueue' = services
    /\ atShutdown' = services
    /\ Log("info", "Shutting down Services...")
    /\ UNCHANGED <<watcherVars, chanVars, cancelled, svcVars, stopErr,
                   resReleased, exited>>
    /\ UNCHANGED <<watchCalls, mainVars>>

\* Services.StopAll: Stop on each managed service, going on after a
\* failing Stop. A service on which Stop was called counts as not running,
\* whatever Stop returned.
StopAllStep(id, ok) ==
    /\ ~exited
    /\ spc = "stopall"
    /\ id \in stopQueue
    /\ stopQueue' = stopQueue \ {id}
    /\ calls' = Called(id, "Stop")
    /\ svc' = [svc EXCEPT ![id].st = "stopped"]
    /\ stopErr' = (stopErr \/ ~ok)
    /\ UNCHANGED <<watcherVars, chanVars, cancelled, services, spc,
                   atShutdown, resReleased, exited, logged>>
    /\ UNCHANGED <<watchCalls, mainVars>>

\* Resilience.Shutdown is invoked without waiting for StopAll to return.
ShutdownResilienceEarly(ok) ==
    /\ ~exited
    /\ spc = "stopall"
    /\ resReleased' = TRUE
    /\ spc' = IF ok THEN "done" ELSE "failed"
    /\ stopQueue' = {}
    /\ logged' = logged
         \cup {<<"info", "Shutting down Resilience...">>}
         \cup (IF ok THEN {<<"info", "Core shut down successfully">>}
               ELSE {<<"error", "Failed to shut down resilience">>})
    /\ UNCHANGED <<watcherVars, chanVars, cancelled, svcVars, atShutdown,
                   stopErr, exited>>
    /\ UNCHANGED <<watchCalls, mainVars>>

\* Shutdown returns the error of StopAll instead of going on.
ShutdownResilienceAbort(ok) ==
    /\ ~exited
    /\ spc = "stopall"
    /\ stopQueue = {}
    /\ IF stopErr
       THEN /\ spc' = "failed"
            /\ Log("error", "Failed to stop services")
            /\ UNCHANGED resReleased
       ELSE /\ resReleased' = TRUE
            /\ spc' = IF ok THEN "done" ELSE "failed"
            /\ logged' = logged
                 \cup {<<"info", "Shutting down Resilience...">>}
                 \cup (IF ok THEN {<<"info", "Core shut down successfully">>}
                       ELSE {<<"error", "Failed to shut down resilience">>})
    /\ UNCHANGED <<watcherVars, chanVars, cancelled, svcVars, stopQueue,
                   atShutdown, stopErr, exited>>
    /\ UNCHANGED <<watchCalls, mainVars>>

\* StopAll has returned: its error is logged, then Resilience.Shutdown.
ShutdownResilience(ok) ==
    /\ ~exited
    /\ spc = "stopall"
    /\ stopQueue = {}
    /\ resReleased' = TRUE
    /\ spc' = IF ok THEN "done" ELSE "failed"
    /\ logged' = logged
         \cup (IF stopErr THEN {<<"error", "Failed to stop services">>}
               ELSE {})
         \cup {<<"info", "Shutting down Resilience...">>}
         \cup (IF ok THEN {<<"info", "Core shut down successfully">>}
               ELSE {<<"error", "Failed to shut down resilience">>})
    /\ UNCHANGED <<watcherVars, chanVars, cancelled, svcVars, stopQueue,
                   atShutdown, stopErr, exited>>
    /\ UNCHANGED <<watchCalls, mainVars>>

Next ==
    \/ CoreStart
    \/ Cancel
    \/ \E t \in EventTypes, n \in Names : Send(t, n)
    \/ CloseChannel
    \/ \E ok \in BOOLEAN : WatchOpen(ok)
    \/ SelectDone
    \/ SelectClosed
    \/ SelectEvent
    \/ \E ok \in BOOLEAN : AddedCreate(ok)
    \/ \E ok \in BOOLEAN : AddedRegister(ok)
    \/ \E ok \in BOOLEAN : AddedInitialize(ok)
    \/ \E ok \in BOOLEAN : AddedStart(ok)
    \/ HandleDeleted
    \/ HandleModified
    \/ ShutdownBegin
    \/ \E id \in Ids, ok \in BOOLEAN : StopAllStep(id, ok)
    \/ \E ok \in BOOLEAN : ShutdownResilience(ok)

Spec == Init /\ [][Next]_vars

(***************************************************************************)
(* main: builds the context and the Core, runs the bulk initialize and     *)
(* start, lists the discovered endpoints and waits for the cancellation.   *)
(* It calls neither Core.Start nor Core.Shutdown.                          *)
(***************************************************************************)
coreVars == <<watcherVars, chanVars, svcVars, shutVars, watchCalls>>

\* The deferred shutdownCancel, run when main returns or panics.
DeferredCancel ==
    /\ cancelCalls' = [cancelCalls EXCEPT !.deferred = @ + 1]
    /\ cancelled' = TRUE

\* context.WithCancel, defer shutdownCancel(), setupSignalHandler: Notify
\* and the goroutine waiting on signalChan.
MainSetup ==
    /\ ~exited
    /\ mpc = "start"
    /\ mpc' = "new_core"
    /\ gpc' = "waiting"
    /\ UNCHANGED <<coreVars, cancelled, exited, logged, signalChan, sigSent,
                   cancelCalls, initAll, startAll, endpoints>>

\* core.NewCore: "ok"; "error" (configuration or services), on which main
\* panics; "fatal": log.Fatal in initializeObservability.
MainNewCore(res) ==
    /\ ~exited
    /\ mpc = "new_core"
    /\ CASE res = "ok" ->
              /\ mpc' = "init_all"
              /\ Log("info", "Core Initializing...")
              /\ UNCHANGED <<cancelled, exited, cancelCalls>>
         [] res = "error" ->
              /\ mpc' = "panicked"
              /\ exited' = TRUE
              /\ DeferredCancel
              /\ Log("info", "Core Initializing...")
         [] OTHER ->
              /\ mpc' = "fatal"
              /\ exited' = TRUE
              /\ UNCHANGED <<cancelled, cancelCalls, logged>>
    /\ UNCHANGED <<coreVars, gpc, signalChan, sigSent, initAll, startAll,
                   endpoints>>

\* initializeAndStartServices: Services.InitializeAll, Fatal on error.
MainInitializeAll(ok) ==
    /\ ~exited
    /\ mpc = "init_all"
    /\ IF ok
       THEN /\ mpc' = "start_all"
            /\ initAll' = "ok"
            /\ Log("info", "Services are initializing...")
            /\ UNCHANGED exited
       ELSE /\ mpc' = "fatal"
            /\ initAll' = "failed"
            /\ exited' = TRUE
            /\ logged' = logged
                 \cup {<<"info", "Services are initializing...">>,
                       <<"fatal", "Failed to initialize services-library">>}
    /\ UNCHANGED <<coreVars, cancelled, gpc, signalChan, sigSent,
                   cancelCalls, startAll, endpoints>>

\* initializeAndStartServices: Services.StartAll, Fatal on error.
MainStartAll(ok) ==
    /\ ~exited
    /\ mpc = "start_all"
    /\ IF ok
       THEN /\ mpc' = "discover"
            /\ startAll' = "ok"
            /\ Log("info", "Services are starting...")
            /\ UNCHANGED exited
       ELSE /\ mpc' = "fatal"
            /\ startAll' = "failed"
            /\ exited' = TRUE
            /\ logged' = logged
                 \cup {<<"info", "Services are starting...">>,
                       <<"fatal", "Failed to start services-library">>}
    /\ UNCHANGED <<coreVars, cancelled, gpc, signalChan, sigSent,
                   cancelCalls, initAll, endpoints>>

\* Services.Discover: on error main returns; else it goes on to log the
\* n endpoints it got.
MainDiscover(ok, n) ==
    /\ ~exited
    /\ mpc = "discover"
    /\ IF ok
       THEN /\ mpc' = "log_endpoints"
            /\ endpoints' = n
            /\ UNCHANGED <<cancelled, exited, cancelCalls>>
       ELSE /\ mpc' = "returned"
            /\ exited' = TRUE
            /\ DeferredCancel
            /\ UNCHANGED endpoints
    /\ UNCHANGED <<coreVars, logged, gpc, signalChan, sigSent, initAll,
                   startAll>>

\* for _, endpoint := range serviceEndpoints: one log line each, then
\* "core Service is running...".
MainLogEndpoints ==
    /\ ~exited
    /\ mpc = "log_endpoints"
    /\ IF endpoints > 0
       THEN /\ endpoints' = endpoints - 1
            /\ Log("info", "Service discovered")
            /\ UNCHANGED mpc
       ELSE /\ mpc' = "wait"
            /\ Log("info", "core Service is running...")
            /\ UNCHANGED endpoints
    /\ UNCHANGED <<coreVars, cancelled, exited, gpc, signalChan, sigSent,
                   cancelCalls, initAll, startAll>>

\* <-shutdownCtx.Done(), the last log line, and the return of main.
MainWait ==
    /\ ~exited
    /\ mpc = "wait"
    /\ cancelled
    /\ mpc' = "returned"
    /\ exited' = TRUE
    /\ cancelCalls' = [cancelCalls EXCEPT !.deferred = @ + 1]
    /\ Log("info", "core Service shutting down...")
    /\ UNCHANGED <<coreVars, cancelled, gpc, signalChan, sigSent, initAll,
                   startAll, endpoints>>

\* An interrupt or termination signal: signal.Notify puts it in signalChan
\* and drops it when the channel is full.
OSSignal ==
    /\ ~exited
    /\ gpc # "none"
    /\ sigSent < MaxSignals
    /\ sigSent' = sigSent + 1
    /\ signalChan' = 1
    /\ UNCHANGED <<coreVars, cancelled, exited, logged, mpc, gpc,
                   cancelCalls, initAll, startAll, endpoints>>

\* The goroutine of setupSignalHandler: <-signalChan.
SignalReceive ==
    /\ ~exited
    /\ gpc = "waiting"
    /\ signalChan = 1
    /\ signalChan' = 0
    /\ gpc' = "received"
    /\ UNCHANGED <<coreVars, cancelled, exited, logged, mpc, sigSent,
                   cancelCalls, initAll, startAll, endpoints>>

\* The goroutine receives in a loop and cancels for every signal.
SignalCancelLoop ==
    /\ ~exited
    /\ gpc = "received"
    /\ gpc' = "waiting"
    /\ cancelCalls' = [cancelCalls EXCEPT !.signal = @ + 1]
    /\ cancelled' = TRUE
    /\ UNCHANGED <<coreVars, exited, logged, mpc, signalChan, sigSent,
                   initAll, startAll, endpoints>>

\* The goroutine of setupSignalHandler: cancelFunc(), and its end.
SignalCancel ==
    /\ ~exited
    /\ gpc = "received"
    /\ gpc' = "done"
    /\ cancelCalls' = [cancelCalls EXCEPT !.signal = @ + 1]
    /\ cancelled' = TRUE
    /\ UNCHANGED <<coreVars, exited, logged, mpc, signalChan, sigSent,
                   initAll, startAll, endpoints>>

NextMain ==
    \/ MainSetup
    \/ \E res \in {"ok", "error", "fatal"} : MainNewCore(res)
    \/ \E ok \in BOOLEAN : MainInitializeAll(ok)
    \/ \E ok \in BOOLEAN : MainStartAll(ok)
    \/ \E ok \in BOOLEAN, n \in 0..MaxEndpoints : MainDiscover(ok, n)
    \/ MainLogEndpoints
    \/ MainWait
    \/ OSSignal
    \/ SignalReceive
    \/ SignalCancel

SpecMain == Init /\ [][NextMain]_vars

(***************************************************************************)
(* The watcher with a producer that never closes the channel and never     *)
(* runs out of events, under weak fairness of the watcher goroutine.       *)
(***************************************************************************)
\* One more event from a producer with no bound on their number. Its type
\* is one the switch does not know, so the loop takes it and goes back to
\* the select, and the histories sent and handlerLog do not grow.
SendUnrecognised(n) ==
    /\ ~exited
    /\ wpc \notin {"init", "opening", "OPEN_FAILED"}
    /\ Len(eventCh) < MaxChan
    /\ eventCh' = Append(eventCh, [type |-> "OTHER", name |-> n, seq |-> 0,
                                   late |-> cancelled])
    /\ UNCHANGED <<watcherVars, chClosed, sent, cancelled, svcVars, shutVars,
                   exited, logged, watchCalls, mainVars>>

\* The steps of the watcher goroutine while the channel stays open.
WatcherLive ==
    \/ \E ok \in BOOLEAN : WatchOpen(ok)
    \/ SelectDone
    \/ SelectEvent
    \/ \E ok \in BOOLEAN : AddedCreate(ok)
    \/ \E ok \in BOOLEAN : AddedRegister(ok)
    \/ \E ok \in BOOLEAN : AddedInitialize(ok)
    \/ \E ok \in BOOLEAN : AddedStart(ok)
    \/ HandleDeleted
    \/ HandleModified

NextLive ==
    \/ CoreStart
    \/ Cancel
    \/ \E t \in EventTypes, n \in Names : Send(t, n)
    \/ \E n \in Names : SendUnrecognised(n)
    \/ WatcherLive

SpecLive == Init /\ [][NextLive]_vars /\ WF_vars(WatcherLive)

(***************************************************************************)
(* Properties                                                              *)
(***************************************************************************)
\* The events the loop has taken from the channel, in the order received.
Received == SubSeq(sent, 1, Len(sent) - Len(eventCh))

Recognised(ev) == ev.type \in {"ADDED", "DELETED", "MODIFIED"}

ExpectedCall(ev) ==
    [handler |-> IF ev.type = "ADDED" THEN "handleServiceAdded"
                 ELSE IF ev.type = "DELETED" THEN "handleServiceDeleted"
                 ELSE "handleServiceModified",
     ev |-> ev]

RECURSIVE ExpectedCalls(_)
ExpectedCalls(evs) ==
    IF evs = <<>> THEN <<>>
    ELSE IF Recognised(Head(evs))
         THEN <<ExpectedCall(Head(evs))>> \o ExpectedCalls(Tail(evs))
         ELSE ExpectedCalls(Tail(evs))

RegisterFailedReturn == wpc = "added_register" /\ wpc' = "select"

\* A created service whose Register failed never has Initialize or Start
\* called on it.
NoInitNoStartOnUnregistered ==
    \A id \in Ids :
        svc[id].st = "created" =>
            calls[id]["Initialize"] = 0 /\ calls[id]["Start"] = 0

\* C2 as stated: after a failed Register neither Initialize nor Start is
\* called on the created service, and when the handler returns the service
\* map does not contain the endpoint's name.
C2_Original ==
    /\ []NoInitNoStartOnUnregistered
    /\ [][RegisterFailedReturn => cur.name \notin ManagedNames']_vars

\* C2 amended: after a failed Register neither Initialize nor Start is
\* called on the created service, and the handler leaves the service map
\* as it was before the event: it contains the endpoint's name only if it
\* already did.
C2_RegisterFailure ==
    /\ []NoInitNoStartOnUnregistered
    /\ [][RegisterFailedReturn =>
            /\ services' = services
            /\ svc' = svc
            /\ cur.seq \notin services']_vars

C2_Witness ==
    /\ wpc = "select"
    /\ cur.type = "ADDED"
    /\ svc[cur.seq].st = "created"
    /\ calls[cur.seq]["Register"] = 1
    /\ cur.name \in ManagedNames

\* handlerLog[j] is a call whose handler has returned.
Returned(j) == j < Len(handlerLog) \/ wpc \notin HandlerPcs

\* C3: once a successful ADDED(n) has been followed by a DELETED(n), with
\* no ADDED(n) after that ADDED, the service of n has had Stop called on it
\* and n is not in the service map.
C3_DeletedStopsAndRemoves ==
    \A i, j \in 1..Len(handlerLog) :
        ( /\ i < j
          /\ handlerLog[i].handler = "handleServiceAdded"
          /\ handlerLog[j].handler = "handleServiceDeleted"
          /\ handlerLog[i].ev.name = handlerLog[j].ev.name
          /\ svc[handlerLog[i].ev.seq].st \in {"running", "stopped"}
          /\ \A k \in (i + 1)..Len(handlerLog) :
                 ~ ( /\ handlerLog[k].handler = "handleServiceAdded"
                     /\ handlerLog[k].ev.name = handlerLog[i].ev.name )
          /\ Returned(j) )
        => /\ calls[handlerLog[i].ev.seq]["Stop"] >= 1
           /\ handlerLog[i].ev.name \notin ManagedNames

\* C4: handleServiceDeleted for a name with no managed service raises no
\* error (the process goes on and the handler returns to the loop), calls
\* Stop on nothing and leaves the service map as it was.
C4_DeletedUnknownIsNoop ==
    [][(wpc = "deleted" /\ cur.name \notin ManagedNames) =>
          /\ ~exited'
          /\ (wpc' # wpc =>
                /\ wpc' = "select"
                /\ services' = services
                /\ svc' = svc
                /\ calls' = calls)]_vars

C4_Witness ==
    /\ wpc = "select"
    /\ cur.type = "DELETED"
    /\ cur.name \notin ManagedNames
    /\ handlerLog # <<>>
    /\ handlerLog[Len(handlerLog)].ev = cur

\* C5: handleServiceModified for a managed, started name makes the service
\* observe one update and keeps the name in the service map. ManagedService
\* has no update call (Initialize, Start, Stop, Name), so an update is
\* observed as the Stop of a restart.
C5_ModifiedUpdatesOnce ==
    [][(/\ wpc = "modified"
        /\ wpc' # wpc
        /\ \E i \in services :
              svc[i].name = cur.name /\ svc[i].st = "running") =>
          /\ cur.name \in ManagedNames'
          /\ \E i \in services :
                /\ svc[i].name = cur.name
                /\ calls'[i]["Stop"] = calls[i]["Stop"] + 1]_vars

\* C6: no event put on the channel after the cancellation of the context
\* is dispatched to a handler.
C6_NoDispatchAfterCancel ==
    \A k \in 1..Len(handlerLog) : ~handlerLog[k].ev.late

\* C7: during StopAll each service of the map taken at the start of
\* Shutdown has had Stop called once or is still waiting for it, and once
\* Resilience.Shutdown has been invoked each of them has had Stop called
\* exactly once, failing Stops included.
C7_StopEachOnceBeforeResilience ==
    /\ spc = "stopall" =>
          \A id \in atShutdown :
              calls[id]["Stop"] = IF id \in stopQueue THEN 0 ELSE 1
    /\ (resReleased \/ spc \in {"done", "failed"}) =>
          /\ resReleased
          /\ \A id \in atShutdown : calls[id]["Stop"] = 1

C7_Witness ==
    /\ resReleased
    /\ stopErr
    /\ Cardinality(atShutdown) = 2

SetupOps == {"CreateService", "Register", "Initialize", "Start"}

\* C8: once Core.Shutdown has released the resilience provider no managed
\* service is running, and none is created, registered, initialized or
\* started from then on.
C8_NothingRunsAfterRelease ==
    /\ [](resReleased => \A i \in services : svc[i].st # "running")
    /\ [][resReleased =>
            \A id \in Ids, op \in SetupOps :
                calls'[id][op] = calls[id][op]]_vars

ClosedWarning == <<"warn", "Service watcher channel closed">>

\* C9: a receive from the closed, drained channel while the context is not
\* cancelled logs the warning and ends the loop in CLOSED, calls no
\* handler and leaves the service map as it was.
C9_ClosedChannelReturns ==
    [][(/\ wpc = "select"
        /\ chClosed
        /\ eventCh = <<>>
        /\ ~cancelled
        /\ (wpc' # wpc \/ (ClosedWarning \in logged' \ logged))) =>
          /\ wpc' = "CLOSED"
          /\ ClosedWarning \in logged'
          /\ handlerLog' = handlerLog
          /\ services' = services
          /\ svc' = svc
          /\ calls' = calls]_vars

C9_Witness ==
    /\ wpc = "CLOSED"
    /\ ~cancelled
    /\ services # {}

\* The ways the loop may leave RUNNING: from the select, on cancellation
\* or on the closed, drained channel.
CleanLoopExit ==
    /\ wpc = "select"
    /\ \/ (wpc' = "CANCELLED" /\ cancelled)
       \/ (wpc' = "CLOSED" /\ chClosed /\ Len(eventCh) = 0)

LoopSurvivesStep ==
    wpc \in RunningPcs =>
        /\ ~exited'
        /\ (wpc \in HandlerPcs => wpc' \in HandlerPcs \cup {"select"})
        /\ (wpc' \notin RunningPcs => CleanLoopExit)

\* C10: while the loop is RUNNING no step ends the process; a handler step
\* leads to the next handler step or back to the select; and the loop
\* leaves RUNNING only from the select, to CANCELLED when the context is
\* cancelled or to CLOSED when the channel is closed and drained.
C10_OnlyCancelOrCloseEndsLoop == [][LoopSurvivesStep]_vars

\* A CreateService failure for the first event, and the second event
\* dispatched after it.
C10_Witness ==
    /\ Len(handlerLog) = 2
    /\ handlerLog[1].handler = "handleServiceAdded"
    /\ calls[handlerLog[1].ev.seq]["CreateService"] = 1
    /\ svc[handlerLog[1].ev.seq].st = "absent"
    /\ wpc = "select"

\* C11: a service on which Start was called was, for the same ADDED event
\* and in this order, created by a successful CreateService, registered by
\* a successful Register and initialized by a successful Initialize: each
\* step is called only after the step before it succeeded.
C11_StartOnlyAfterSetup ==
    \A id \in Ids :
        /\ calls[id]["Register"] >= 1 => "CreateService" \in svc[id].ok
        /\ calls[id]["Initialize"] >= 1 => "Register" \in svc[id].ok
        /\ calls[id]["Start"] >= 1 =>
              /\ {"CreateService", "Register", "Initialize"} \subseteq svc[id].ok
              /\ calls[id]["CreateService"] = 1
              /\ calls[id]["Register"] = 1
              /\ calls[id]["Initialize"] = 1

C11_Witness ==
    \E id \in Ids : calls[id]["Start"] = 1 /\ svc[id].st = "running"

\* C12: when Services.Watch fails the watcher ends in OPEN_FAILED without
\* having dispatched an event, and the rest of the process keeps running.
C12_OpenFailureEndsOnlyWatcher ==
    wpc = "OPEN_FAILED" => (handlerLog = <<>> /\ ~exited)

InitializeFailedReturn == wpc = "added_initialize" /\ wpc' = "select"

StartFailedReturn ==
    /\ wpc = "added_start"
    /\ wpc' = "select"
    /\ "Start" \notin svc'[cur.seq].ok

NoRollbackAfterInitialize ==
    InitializeFailedReturn =>
        /\ services' = services
        /\ cur.seq \in services'
        /\ "Initialize" \notin svc'[cur.seq].ok
        /\ calls'[cur.seq]["Start"] = 0

NoRollbackAfterStart ==
    StartFailedReturn =>
        /\ services' = services
        /\ cur.seq \in services'
        /\ "Initialize" \in svc'[cur.seq].ok
        /\ svc'[cur.seq].st # "running"

\* C16: when Initialize fails after a successful Register the handler
\* returns with the service still in the service map, not initialized, and
\* Start is never called on it; when Start fails after a successful
\* Initialize the handler returns with the service still in the service
\* map, initialized and not running.
C16_NoRollback ==
    /\ [](\A id \in Ids :
             "Initialize" \notin svc[id].ok => calls[id]["Start"] = 0)
    /\ [][NoRollbackAfterInitialize]_vars
    /\ [][NoRollbackAfterStart]_vars

\* One event whose Initialize failed and one whose Start failed, both
\* still in the service map.
C16_Witness ==
    /\ wpc = "select"
    /\ \E i, j \in services :
          /\ calls[i]["Initialize"] = 1
          /\ "Initialize" \notin svc[i].ok
          /\ calls[j]["Start"] = 1
          /\ "Start" \notin svc[j].ok

ShutdownReturned == spc \in {"done", "failed"}

\* C17 as stated: Shutdown always invokes Resilience.Shutdown, and the
\* failure of a step is only logged: Shutdown completes the sequence and
\* reports no error.
C17_Original ==
    ShutdownReturned => (resReleased /\ spc = "done")

\* C17 amended: Shutdown always invokes Resilience.Shutdown after StopAll
\* returned; a failure of StopAll is only logged; a failure of
\* Resilience.Shutdown is logged and returned as the error of Shutdown, and
\* only then the closing success message is left out.
C17_BestEffort ==
    ShutdownReturned =>
        /\ resReleased
        /\ stopQueue = {}
        /\ stopErr => <<"error", "Failed to stop services">> \in logged
        /\ <<"info", "Shutting down Resilience...">> \in logged
        /\ spc = "failed" <=>
              <<"error", "Failed to shut down resilience">> \in logged
        /\ spc = "done" <=>
              <<"info", "Core shut down successfully">> \in logged

C17_Witness ==
    /\ spc = "done"
    /\ stopErr
    /\ atShutdown # {}

TerminalIsAbsorbing ==
    wpc \in TerminalPcs =>
        /\ wpc' = wpc
        /\ watchCalls' = watchCalls
        /\ handlerLog' = handlerLog
        /\ cur' = cur
        /\ Len(eventCh') >= Len(eventCh)

\* C19: Services.Watch is called once per run of startServiceWatcher, and
\* once the watcher is in CANCELLED, CLOSED or OPEN_FAILED it stays there:
\* it does not open the stream again, takes nothing from the channel and
\* calls no handler.
C19_WatchOnceTerminalAbsorbing ==
    /\ [](watchCalls <= 1)
    /\ [](wpc \notin {"init", "opening"} => watchCalls = 1)
    /\ [][TerminalIsAbsorbing]_vars

\* The watcher has returned and an event is left on the channel.
C19_Witness ==
    /\ wpc \in {"CANCELLED", "CLOSED"}
    /\ eventCh # <<>>
    /\ watchCalls = 1

\* handlerLog[k] is a handleServiceAdded call that is past position pc.
PastStep(k, pc) == k < Len(handlerLog) \/ wpc # pc

\* C20: for every ADDED event each of CreateService, Register, Initialize
\* and Start is called at most once; CreateService is called for every
\* ADDED event and Register for every one whose CreateService succeeded,
\* whether or not the name is already managed.
C20_EachStepOnceNoDedup ==
    /\ \A id \in Ids, op \in SetupOps : calls[id][op] <= 1
    /\ \A k \in 1..Len(handlerLog) :
          handlerLog[k].handler = "handleServiceAdded" =>
              LET id == handlerLog[k].ev.seq
              IN  /\ PastStep(k, "added_create") =>
                        calls[id]["CreateService"] = 1
                  /\ ( /\ PastStep(k, "added_create")
                       /\ PastStep(k, "added_register")
                       /\ "CreateService" \in svc[id].ok ) =>
                        calls[id]["Register"] = 1

\* A second ADDED for a name whose first ADDED registered it: CreateService
\* and Register were called again.
C20_Witness ==
    /\ Len(handlerLog) = 2
    /\ handlerLog[1].handler = "handleServiceAdded"
    /\ handlerLog[2].handler = "handleServiceAdded"
    /\ handlerLog[1].ev.name = handlerLog[2].ev.name
    /\ "Register" \in svc[handlerLog[1].ev.seq].ok
    /\ calls[handlerLog[2].ev.seq]["CreateService"] = 1
    /\ calls[handlerLog[2].ev.seq]["Register"] = 1

\* C13: when main has returned after the signal goroutine triggered the
\* cancellation, the shutdown sequence has run: StopAll, then
\* Resilience.Shutdown.
C13_CancelRunsShutdown ==
    (mpc = "returned" /\ cancelCalls.signal >= 1) =>
        (spc \in {"done", "failed"} /\ resReleased)

\* C14 as stated: the cancel function of the shutdown context is invoked at
\* most once in a run, counting the signal goroutine and the deferred call.
C14_Original == cancelCalls.signal + cancelCalls.deferred <= 1

\* C14 amended: the signal goroutine invokes the cancel function at most
\* once, whatever the number of signals; the deferred call invokes it once
\* more, and only when main returns or panics; so it is invoked at most
\* twice, and the context is cancelled from the first invocation on.
C14_CancelCalls ==
    /\ cancelCalls.signal <= 1
    /\ cancelCalls.deferred <= 1
    /\ cancelCalls.deferred = 1 => mpc \in {"returned", "panicked"}
    /\ cancelCalls.signal + cancelCalls.deferred >= 1 => cancelled

\* Two signals arrived; the goroutine and the deferred call each cancelled.
C14_Witness ==
    /\ sigSent >= 2
    /\ cancelCalls.signal = 1
    /\ cancelCalls.deferred = 1

\* C15: StartAll is invoked only after InitializeAll succeeded; the watch
\* stream is opened, and the watcher launched, only after StartAll
\* succeeded; a failed InitializeAll or StartAll ends the startup; and when
\* the startup is over (main waits for the cancellation) the watch loop has
\* been launched.
C15_StartupOrder ==
    /\ startAll # "none" => initAll = "ok"
    /\ (wpc # "init" \/ watchCalls >= 1) => startAll = "ok"
    /\ initAll = "failed" => (startAll = "none" /\ mpc = "fatal")
    /\ startAll = "failed" => mpc = "fatal"
    /\ mpc = "wait" => wpc # "init"

====
